---- MODULE Spec2Model ----
(***************************************************************************)
(* Model of audiocloud_lib (src/src/lib.rs): the path classifier           *)
(* (detect_type and its tempo extraction) and the query engine             *)
(* (use_sample_relevance, search_lib).                                     *)
(*                                                                         *)
(* Strings are TLA+ strings; a character is a string of length 1.          *)
(* Option<T> is a sequence: <<>> for None, <<v>> for Some(v).              *)
(* A u32 is a pair of 16-bit limbs <<hi, lo>>, a 64-bit usize is four      *)
(* limbs, so that the `as u32` and `as usize` casts keep their width.      *)
(***************************************************************************)
EXTENDS Integers, Sequences, FiniteSets, TLC

VARIABLES pc, path, sampletype, lib, query, sorting_vec, samples

vars == <<pc, path, sampletype, lib, query, sorting_vec, samples>>

(***************************************************************************)
(* Option, integers                                                        *)
(***************************************************************************)
None == <<>>

Some(v) == <<v>>

is_some(o) == Len(o) = 1

unwrap(o) == o[1]

MaxI32 == 2147483647

MinI32 == (-2147483647) - 1

Limb == 2 ^ 16

\* `x as u32` for an i32 x: the value modulo 2^32, as limbs <<hi, lo>>.
as_u32(x) == << (x \div Limb) % Limb, x % Limb >>

\* `x as usize` for an i32 x on a 64-bit target: sign extension to 64 bits.
as_usize(x) ==
  IF x >= 0 THEN << 0, 0, x \div Limb, x % Limb >>
            ELSE << Limb - 1, Limb - 1, (x \div Limb) % Limb, x % Limb >>

\* a < b for two unsigned values of the same number of limbs
RECURSIVE limbs_lt(_, _)
limbs_lt(a, b) ==
  IF Len(a) = 0 THEN FALSE
  ELSE IF a[1] # b[1] THEN a[1] < b[1]
  ELSE limbs_lt(Tail(a), Tail(b))

(***************************************************************************)
(* str                                                                     *)
(***************************************************************************)
Upper == <<"A", "B", "C", "D", "E", "F", "G", "H", "I", "J", "K", "L", "M",
           "N", "O", "P", "Q", "R", "S", "T", "U", "V", "W", "X", "Y", "Z">>

Lower == <<"a", "b", "c", "d", "e", "f", "g", "h", "i", "j", "k", "l", "m",
           "n", "o", "p", "q", "r", "s", "t", "u", "v", "w", "x", "y", "z">>

char_to_lowercase(c) ==
  IF \E i \in 1..Len(Upper) : Upper[i] = c
  THEN Lower[CHOOSE i \in 1..Len(Upper) : Upper[i] = c]
  ELSE c

\* str::to_lowercase
RECURSIVE to_lowercase(_)
to_lowercase(s) ==
  IF Len(s) = 0 THEN ""
  ELSE char_to_lowercase(SubSeq(s, 1, 1)) \o to_lowercase(SubSeq(s, 2, Len(s)))

\* str::contains(pat)
contains(s, pat) ==
  \E i \in 0..(Len(s) - Len(pat)) : SubSeq(s, i + 1, i + Len(pat)) = pat

\* str::starts_with(pat)
starts_with(s, pat) ==
  Len(s) >= Len(pat) /\ SubSeq(s, 1, Len(pat)) = pat

\* str::find(char): Some(0-based index of the first occurrence) or None
find(s, c) ==
  IF \E i \in 1..Len(s) : SubSeq(s, i, i) = c
  THEN Some((CHOOSE i \in 1..Len(s) :
               /\ SubSeq(s, i, i) = c
               /\ \A j \in 1..(i - 1) : SubSeq(s, j, j) # c) - 1)
  ELSE None

\* s[from..] and s[from..to] with 0-based, end-exclusive indices
slice_from(s, from) == SubSeq(s, from + 1, Len(s))

slice(s, from, to) == SubSeq(s, from + 1, to)

\* str::replace(c, ""): every occurrence of the character removed
RECURSIVE replace_with_empty(_, _)
replace_with_empty(s, c) ==
  IF Len(s) = 0 THEN ""
  ELSE (IF SubSeq(s, 1, 1) = c THEN "" ELSE SubSeq(s, 1, 1))
         \o replace_with_empty(SubSeq(s, 2, Len(s)), c)

is_whitespace(c) == c \in {" ", "\t", "\n", "\r"}

RECURSIVE trim_start(_)
trim_start(s) ==
  IF Len(s) > 0 /\ is_whitespace(SubSeq(s, 1, 1))
  THEN trim_start(SubSeq(s, 2, Len(s)))
  ELSE s

RECURSIVE trim_end(_)
trim_end(s) ==
  IF Len(s) > 0 /\ is_whitespace(SubSeq(s, Len(s), Len(s)))
  THEN trim_end(SubSeq(s, 1, Len(s) - 1))
  ELSE s

\* str::trim
trim(s) == trim_end(trim_start(s))

\* str::split(' ').collect(): the pieces between consecutive spaces,
\* empty pieces kept, one piece for the empty string
RECURSIVE split(_, _)
split(s, c) ==
  LET i == find(s, c)
  IN  IF is_some(i)
      THEN <<slice(s, 0, unwrap(i))>> \o split(slice_from(s, unwrap(i) + 1), c)
      ELSE <<s>>

Digits == <<"0", "1", "2", "3", "4", "5", "6", "7", "8", "9">>

is_digit(c) == \E i \in 1..10 : Digits[i] = c

digit(c) == (CHOOSE i \in 1..10 : Digits[i] = c) - 1

\* The digit loop of i32::from_str: checked_mul(10) then checked_add (or
\* checked_sub for a negative number); None on a non-digit or on overflow.
RECURSIVE parse_digits(_, _, _)
parse_digits(s, acc, positive) ==
  IF Len(s) = 0 THEN Some(acc)
  ELSE LET c == SubSeq(s, 1, 1)
       IN  IF ~is_digit(c) THEN None
           ELSE IF positive
           THEN IF acc > (MaxI32 - digit(c)) \div 10 THEN None
                ELSE parse_digits(SubSeq(s, 2, Len(s)), acc * 10 + digit(c), TRUE)
           ELSE IF acc < (MinI32 + digit(c) + 9) \div 10 THEN None
                ELSE parse_digits(SubSeq(s, 2, Len(s)), acc * 10 - digit(c), FALSE)

\* str::parse::<i32>().ok()
parse_i32(s) ==
  IF Len(s) = 0 THEN None
  ELSE IF SubSeq(s, 1, 1) \in {"+", "-"}
  THEN IF Len(s) = 1 THEN None
       ELSE parse_digits(SubSeq(s, 2, Len(s)), 0, SubSeq(s, 1, 1) = "+")
  ELSE parse_digits(s, 0, TRUE)

(***************************************************************************)
(* SampleType                                                              *)
(***************************************************************************)
Loop(tempo) == [tag |-> "Loop", tempo |-> tempo]

OneShot == [tag |-> "OneShot"]

\* std::mem::discriminant
discriminant(t) == t.tag

(***************************************************************************)
(* Classifier                                                              *)
(***************************************************************************)
\* extract_tempo_braces closing the region at the last "]" of the path
extract_tempo_braces_last_close(input) ==
  LET start_index == find(input, "[")
      closes == { j \in 1..Len(input) : SubSeq(input, j, j) = "]" }
  IN  IF ~is_some(start_index) THEN None
      ELSE IF \A j \in closes : j <= unwrap(start_index) + 1 THEN None
      ELSE LET end_index == (CHOOSE j \in closes : \A k \in closes : j >= k) - 1
           IN  parse_i32(slice(input, unwrap(start_index) + 1, end_index))

extract_tempo_braces(input) ==
  LET start_index == find(input, "[")
  IN  IF ~is_some(start_index) THEN None
      ELSE LET rest == find(slice_from(input, unwrap(start_index) + 1), "]")
           IN  IF ~is_some(rest) THEN None
               ELSE LET end_index == unwrap(rest) + unwrap(start_index) + 1
                    IN  parse_i32(slice(input, unwrap(start_index) + 1, end_index))

detect_tempo_txt(p) ==
  LET extracted == extract_tempo_braces(p)
  IN  IF is_some(extracted) THEN unwrap(extracted) ELSE 0

loop_signals == <<"/loop", "/construction", "_loop", "[", "bpm", "loop", "loops">>

\* detect_type testing the path as given, not lowercased
detect_type_case_sensitive(p) ==
  IF \E k \in 1..Len(loop_signals) : contains(p, loop_signals[k])
  THEN Loop(detect_tempo_txt(p))
  ELSE OneShot

detect_type(p) ==
  LET path_lower == to_lowercase(p)
  IN  IF \E k \in 1..Len(loop_signals) : contains(path_lower, loop_signals[k])
      THEN Loop(detect_tempo_txt(path_lower))
      ELSE OneShot

(***************************************************************************)
(* Query engine                                                            *)
(***************************************************************************)
Sample(p, t) == [path |-> p, name |-> p, sampletype |-> t]

PackInfo(n) == [name |-> n, description |-> "", img |-> None]

Pack(n, ss) == [samples |-> ss, meta |-> PackInfo(n)]

SampleLibrary(ps) == [packs |-> ps, name |-> "lib"]

SearchParams(text, st, maxt, mint, pid, maxr) ==
  [query |-> text, sample_type |-> st, max_tempo |-> maxt, min_tempo |-> mint,
   pack_id |-> pid, max_results |-> maxr]

\* the type gate comparing whole values, tempo included
type_gate_whole_value(q, sample) ==
  /\ is_some(q.sample_type)
  /\ unwrap(q.sample_type) # sample.sampletype

\* lines 69-76: the filter is present and its variant differs from the sample's
type_gate(q, sample) ==
  /\ is_some(q.sample_type)
  /\ discriminant(unwrap(q.sample_type)) # discriminant(sample.sampletype)

\* lines 78-93: the filter is Loop(tempo) and tempo, cast to u32, is above
\* min_tempo or below max_tempo
tempo_gate(q) ==
  /\ is_some(q.sample_type)
  /\ discriminant(unwrap(q.sample_type)) = "Loop"
  /\ LET tempo == unwrap(q.sample_type).tempo
     IN  \/ is_some(q.min_tempo) /\ limbs_lt(unwrap(q.min_tempo), as_u32(tempo))
         \/ is_some(q.max_tempo) /\ limbs_lt(as_u32(tempo), unwrap(q.max_tempo))

\* lines 99-107: the token is a negation and the path contains its text
token_filters(sample, token) ==
  /\ starts_with(token, "-")
  /\ contains(to_lowercase(sample.path),
              replace_with_empty(to_lowercase(token), "-"))

\* the match test skipped for negation tokens
token_matches_unless_negated(sample, token) ==
  /\ ~starts_with(token, "-")
  /\ contains(to_lowercase(sample.path), to_lowercase(token))

\* lines 108-110
token_matches(sample, token) ==
  contains(to_lowercase(sample.path), to_lowercase(token))

\* lines 95-112: the for_each over the tokens, giving <<relevancy, is_filtered>>
RECURSIVE score_tokens(_, _, _, _)
score_tokens(sample, text_queries, relevancy, is_filtered) ==
  IF Len(text_queries) = 0 THEN <<relevancy, is_filtered>>
  ELSE LET token == Head(text_queries)
       IN  IF Len(token) = 0
           THEN score_tokens(sample, Tail(text_queries), relevancy, is_filtered)
           ELSE score_tokens(sample, Tail(text_queries),
                  IF token_matches(sample, token) THEN relevancy + 1 ELSE relevancy,
                  is_filtered \/ token_filters(sample, token))

use_sample_relevance(q, sample, text_queries) ==
  IF type_gate(q, sample) THEN 0
  ELSE IF tempo_gate(q) THEN 0
  ELSE LET r == score_tokens(sample, text_queries, 0, FALSE)
       IN  IF r[2] THEN 0 ELSE r[1]

\* lines 121-123
tokenize(text) ==
  LET pieces == split(to_lowercase(text), " ")
  IN  [i \in 1..Len(pieces) |-> trim(pieces[i])]

\* the pack filter comparing names without regard to case
pack_selected_ignoring_case(q, pack) ==
  ~is_some(q.pack_id) \/ to_lowercase(pack.meta.name) = to_lowercase(unwrap(q.pack_id))

\* lines 130-134: the pack is scanned
pack_selected(q, pack) ==
  ~is_some(q.pack_id) \/ pack.meta.name = unwrap(q.pack_id)

\* lines 136-141: the (sample, score) pairs one pack pushes
RECURSIVE scan_samples(_, _, _)
scan_samples(q, ss, text_queries) ==
  IF Len(ss) = 0 THEN <<>>
  ELSE LET rev == use_sample_relevance(q, Head(ss), text_queries)
       IN  (IF rev > 0 THEN << <<Head(ss), rev>> >> ELSE <<>>)
             \o scan_samples(q, Tail(ss), text_queries)

\* lines 128-142
RECURSIVE scan_packs(_, _, _)
scan_packs(q, packs, text_queries) ==
  IF Len(packs) = 0 THEN <<>>
  ELSE (IF pack_selected(q, Head(packs))
        THEN scan_samples(q, Head(packs).samples, text_queries)
        ELSE <<>>)
         \o scan_packs(q, Tail(packs), text_queries)

\* the comparison of a sort that puts later equal scores first
sorts_before_or_equal(a, b) == a[2] >= b[2]

\* b.1.cmp(&a.1) == Less: a is ordered before b
sorts_before(a, b) == a[2] > b[2]

\* one insertion of the stable sort: e goes behind everything that is not
\* ordered after it
RECURSIVE insert_sorted(_, _)
insert_sorted(sorted, e) ==
  IF Len(sorted) = 0 THEN <<e>>
  ELSE IF sorts_before(e, Head(sorted)) THEN <<e>> \o sorted
  ELSE <<Head(sorted)>> \o insert_sorted(Tail(sorted), e)

\* line 144: slice::sort_by, a stable sort
RECURSIVE sort_by(_, _)
sort_by(v, done) ==
  IF Len(v) = 0 THEN done
  ELSE sort_by(Tail(v), insert_sorted(done, Head(v)))

DefaultMaxResults == 10

\* lines 146-149
resolve_max_results(q) ==
  IF is_some(q.max_results) THEN as_usize(unwrap(q.max_results))
  ELSE as_usize(DefaultMaxResults)

\* the truncation keeping one sample more than the limit
truncate_one_more(sorted, max_results) ==
  IF ~limbs_lt(as_usize(Len(sorted)), max_results)
  THEN LET n == max_results[3] * Limb + max_results[4]
           m == IF n < Len(sorted) THEN n + 1 ELSE n
       IN  [i \in 1..m |-> sorted[i][1]]
  ELSE [i \in 1..Len(sorted) |-> sorted[i][1]]

\* lines 151-160
truncate(sorted, max_results) ==
  IF ~limbs_lt(as_usize(Len(sorted)), max_results)
  THEN LET n == max_results[3] * Limb + max_results[4]
       IN  [i \in 1..n |-> sorted[i][1]]
  ELSE [i \in 1..Len(sorted) |-> sorted[i][1]]

\* lines 120-144: sorting_vec after the sort
search_sorting_vec(l, q) ==
  sort_by(scan_packs(q, l.packs, tokenize(q.query)), <<>>)

\* lines 146-162: SearchResult.samples, from the sorted sorting_vec
search_result_samples(sorted, q) == truncate(sorted, resolve_max_results(q))

(***************************************************************************)
(* Inputs                                                                  *)
(***************************************************************************)
MaxFrags == 4

MaxQFrags == 4

MaxSamples == 2

MaxPacks == 2

MaxLong == 12

SeqsUpTo(S, n) == UNION { [1..k -> S] : k \in 0..n }

RECURSIVE Concat(_)
Concat(fs) == IF Len(fs) = 0 THEN "" ELSE Head(fs) \o Concat(Tail(fs))

\* pieces of file paths: brackets, numbers, signs, the loop keywords in both
\* cases and the separator that completes them
PathFrags == {"[", "]", "120", "2147483648", "-", "+", "_loop", "LOOPS",
              "/", "bpm", "construction"}

\* pieces of query texts
QueryFrags == {"a", "-", " ", "\t", "B"}

OneShots(ps) == [i \in 1..Len(ps) |-> Sample(ps[i], OneShot)]

TextOnly(text, maxr) == SearchParams(text, None, None, None, None, maxr)

TypeFilters == {None, Some(OneShot), Some(Loop(-1)), Some(Loop(0)),
                Some(Loop(120)), Some(Loop(MinI32))}

TempoBounds == {None, Some(<<0, 0>>), Some(<<0, 100>>), Some(<<Limb - 1, Limb - 1>>)}

Limits == {None, Some(MinI32), Some(-1), Some(0), Some(1), Some(2), Some(3)}

\* the packs of the libraries with several packs
NamedPacks == { Pack(n, OneShots(ps)) :
                  n \in {"Drums", "drums"}, ps \in {<<"a">>, <<"xa">>, <<"a", "xa">>} }

RankedPacks == { Pack("Drums", OneShots(ps)) :
                   ps \in {<<"a">>, <<"ab">>, <<"b">>, <<"a", "b">>, <<"ab", "a">>} }

(***************************************************************************)
(* The calls                                                               *)
(***************************************************************************)
NoLib == SampleLibrary(<<>>)

NoQuery == TextOnly("", None)

NoResult ==
  /\ sampletype = None
  /\ sorting_vec = <<>>
  /\ samples = <<>>

InitDetectType ==
  /\ pc = "detect_type"
  /\ \E fs \in SeqsUpTo(PathFrags, MaxFrags) : path = Concat(fs)
  /\ lib = NoLib
  /\ query = NoQuery
  /\ NoResult

\* free text against one pack
InitTextCall ==
  /\ \E ps \in {<<"Ab">>, <<"-a-a">>, <<"Ab", "-a-a">>} :
       lib = SampleLibrary(<<Pack("Drums", OneShots(ps))>>)
  /\ \E fs \in SeqsUpTo(QueryFrags, MaxQFrags) : query = TextOnly(Concat(fs), None)

\* type and tempo filters against one pack of loops and one-shots
InitFilterCall ==
  /\ \E ss \in SeqsUpTo({Sample("a", OneShot), Sample("a", Loop(0)),
                         Sample("a", Loop(120)), Sample("xa", Loop(-5))},
                        MaxSamples) :
       lib = SampleLibrary(<<Pack("Drums", ss)>>)
  /\ \E st \in TypeFilters, maxt \in TempoBounds, mint \in TempoBounds :
       query = SearchParams("a", st, maxt, mint, None, None)

\* pack filter against several packs
InitPackCall ==
  /\ \E ps \in SeqsUpTo(NamedPacks, MaxPacks) : lib = SampleLibrary(ps)
  /\ \E pid \in {None, Some("Drums"), Some("drums"), Some("Synths")} :
       query = SearchParams("a", None, None, None, pid, None)

\* ranking and limit against several packs
InitRankCall ==
  /\ \E ps \in SeqsUpTo(RankedPacks, MaxPacks) : lib = SampleLibrary(ps)
  /\ \E t \in {"a", "a b"}, maxr \in Limits : query = TextOnly(t, maxr)

\* the default limit against one long pack
InitLongCall ==
  /\ \E ss \in SeqsUpTo({Sample("a", OneShot), Sample("c", OneShot)}, MaxLong) :
       lib = SampleLibrary(<<Pack("Drums", ss)>>)
  /\ query = TextOnly("a", None)

InitSearchLib ==
  /\ pc = "search_lib"
  /\ path = ""
  /\ InitTextCall \/ InitFilterCall \/ InitPackCall \/ InitRankCall \/ InitLongCall
  /\ NoResult

Init == InitDetectType \/ InitSearchLib

DetectType ==
  /\ pc = "detect_type"
  /\ sampletype' = Some(detect_type(path))
  /\ pc' = "detect_type.ret"
  /\ UNCHANGED <<path, lib, query, sorting_vec, samples>>

SearchLib ==
  /\ pc = "search_lib"
  /\ sorting_vec' = search_sorting_vec(lib, query)
  /\ samples' = search_result_samples(sorting_vec', query)
  /\ pc' = "search_lib.ret"
  /\ UNCHANGED <<path, lib, query, sampletype>>

Next == DetectType \/ SearchLib

Spec == Init /\ [][Next]_vars

\* the calls of one entry point only
SpecDetectType == InitDetectType /\ [][DetectType]_vars

SpecSearchLib == InitSearchLib /\ [][SearchLib]_vars

TypeOK ==
  /\ pc \in {"detect_type", "detect_type.ret", "search_lib", "search_lib.ret"}
  /\ pc = "detect_type.ret" <=> is_some(sampletype)

(***************************************************************************)
(* Classifier properties                                                   *)
(***************************************************************************)
Chr(s, i) == SubSeq(s, i, i)

Pow10(n) == 10 ^ n

\* the number a string of at most nine digits denotes
Value9(ds) ==
  LET n == Len(ds)
      f[k \in 0..n] == IF k = 0 THEN 0 ELSE f[k - 1] + digit(Chr(ds, k)) * Pow10(n - k)
  IN  f[n]

\* s without its sign and without its leading zeros (one digit always kept)
Significant(s) ==
  LET body == IF Chr(s, 1) \in {"+", "-"} THEN SubSeq(s, 2, Len(s)) ELSE s
      nz == { k \in 1..Len(body) : Chr(body, k) # "0" }
      first == IF nz = {} THEN Len(body) ELSE CHOOSE k \in nz : \A m \in nz : k <= m
  IN  SubSeq(body, first, Len(body))

\* s is a decimal numeral, optionally signed, for a number of the i32 range
IsI32Numeral(s) ==
  LET body == IF Len(s) > 0 /\ Chr(s, 1) \in {"+", "-"} THEN SubSeq(s, 2, Len(s)) ELSE s
  IN  /\ Len(body) > 0
      /\ \A k \in 1..Len(body) : is_digit(Chr(body, k))
      /\ LET sig == Significant(s)
             n == Len(sig)
         IN  \/ n <= 9
             \/ /\ n = 10
                /\ LET high == Value9(SubSeq(sig, 1, 9))
                       last == digit(Chr(sig, 10))
                   IN  \/ high < 214748364
                       \/ high = 214748364 /\ last <= (IF Chr(s, 1) = "-" THEN 8 ELSE 7)

\* the number an i32 numeral denotes
NumeralValue(s) ==
  LET sig == Significant(s)
      n == Len(sig)
      high == IF n = 10 THEN Value9(SubSeq(sig, 1, 9)) ELSE 0
      low == IF n = 10 THEN digit(Chr(sig, 10)) ELSE Value9(sig)
  IN  IF Chr(s, 1) = "-"
      THEN (IF n = 10 THEN (0 - high * 10) - low ELSE 0 - low)
      ELSE (IF n = 10 THEN high * 10 + low ELSE low)

\* 1-based position of the first "[" of s, 0 when there is none
FirstOpen(s) ==
  LET opens == { i \in 1..Len(s) : Chr(s, i) = "[" }
  IN  IF opens = {} THEN 0 ELSE CHOOSE i \in opens : \A j \in opens : i <= j

\* 1-based position of the first "]" of s behind position i, 0 when none
FirstCloseAfter(s, i) ==
  LET closes == { j \in (i + 1)..Len(s) : Chr(s, j) = "]" }
  IN  IF closes = {} THEN 0 ELSE CHOOSE j \in closes : \A k \in closes : j <= k

\* the tempo the first bracketed region of s states, 0 when it states none
BracketTempo(s) ==
  LET i == FirstOpen(s)
      j == IF i = 0 THEN 0 ELSE FirstCloseAfter(s, i)
      interior == SubSeq(s, i + 1, j - 1)
  IN  IF i # 0 /\ j # 0 /\ IsI32Numeral(interior) THEN NumeralValue(interior) ELSE 0

HasKeyword(s, ks) == \E k \in ks : contains(s, k)

AllKeywords == {"/loop", "/construction", "_loop", "[", "bpm", "loop", "loops"}

OtherKeywords == AllKeywords \ {"["}

\* C6 as stated: every path that contains "[120]" and no other loop keyword
\* is classified Loop(120), wherever further brackets stand.
C6_AnyBracket120 ==
  (/\ pc = "detect_type.ret"
   /\ contains(path, "[120]")
   /\ ~HasKeyword(to_lowercase(path), OtherKeywords))
    => sampletype = Some(Loop(120))

\* C6 amended: every path that contains "[120]" and no other loop keyword,
\* and whose first "[" is the one that opens a "[120]", is classified
\* Loop(120); brackets behind it and "]" before it do not matter.
C6_FirstBracket120 ==
  (/\ pc = "detect_type.ret"
   /\ contains(path, "[120]")
   /\ ~HasKeyword(to_lowercase(path), OtherKeywords)
   /\ SubSeq(path, FirstOpen(path), FirstOpen(path) + 4) = "[120]")
    => sampletype = Some(Loop(120))

C6_Witness ==
  /\ pc = "detect_type.ret"
  /\ starts_with(path, "][120]")
  /\ sampletype = Some(Loop(120))

\* C7: detect_type returns OneShot exactly when the lowercased path contains
\* no keyword, and otherwise Loop(t) with t the number between the first "["
\* and the first "]" behind it, 0 when there is no such number.
C7_DetectTypeTotal ==
  pc = "detect_type.ret" =>
    LET lower == to_lowercase(path)
    IN  /\ is_some(sampletype)
        /\ ~HasKeyword(lower, AllKeywords) <=> unwrap(sampletype) = OneShot
        /\ HasKeyword(lower, AllKeywords) => unwrap(sampletype) = Loop(BracketTempo(lower))

C7_Witness ==
  /\ pc = "detect_type.ret"
  /\ path = "LOOPS[120]"
  /\ sampletype = Some(Loop(120))

(***************************************************************************)
(* Query engine properties                                                 *)
(***************************************************************************)
Returned == pc = "search_lib.ret"

\* <<i, j>>: sample j of pack i, for the packs the pack filter lets through
Scanned ==
  { p \in UNION { {i} \X (1..Len(lib.packs[i].samples)) : i \in 1..Len(lib.packs) } :
      ~is_some(query.pack_id) \/ lib.packs[p[1]].meta.name = unwrap(query.pack_id) }

SampleAt(p) == lib.packs[p[1]].samples[p[2]]

ScoreAt(p) == use_sample_relevance(query, SampleAt(p), tokenize(query.query))

Matching == { p \in Scanned : ScoreAt(p) > 0 }

ScannedBefore(p, q) == p[1] < q[1] \/ (p[1] = q[1] /\ p[2] < q[2])

InSortingVec(s) == \E k \in 1..Len(sorting_vec) : sorting_vec[k][1] = s

Min(a, b) == IF a <= b THEN a ELSE b

RequestedLimit ==
  IF is_some(query.max_results) THEN unwrap(query.max_results) ELSE 10

\* C1: with max_results absent or non-negative the result has exactly
\* min(M, L) samples, M the number of scanned samples with score > 0 and L
\* max_results or 10.
C1_ResultLength ==
  (Returned /\ RequestedLimit >= 0)
    => Len(samples) = Min(Cardinality(Matching), RequestedLimit)

C1_Witness ==
  /\ Returned
  /\ ~is_some(query.max_results)
  /\ Cardinality(Matching) > 10
  /\ Len(samples) = 10

\* the pieces of the query text between spaces, lowercased, as the claim
\* C2 reads them
SpacePieces(text) ==
  LET pieces == split(to_lowercase(text), " ")
  IN  { pieces[k] : k \in 1..Len(pieces) }

\* C2: no returned sample's lowercased path contains a negation token's text
\* behind its leading "-".
C2_NegationExcludes ==
  Returned =>
    \A t \in SpacePieces(query.query) :
      starts_with(t, "-") =>
        \A k \in 1..Len(samples) :
          ~contains(to_lowercase(samples[k].path), SubSeq(t, 2, Len(t)))

\* the sample has a matching, unfiltered text and no tempo gate stops it
TextPasses(s) ==
  LET r == score_tokens(s, tokenize(query.query), 0, FALSE)
  IN  ~r[2] /\ r[1] > 0

\* C3: with a type filter every returned sample has the filter's variant,
\* and the tempo inside a Loop filter plays no part in the comparison.
C3_TypeFilter ==
  (Returned /\ is_some(query.sample_type)) =>
    /\ \A k \in 1..Len(samples) :
         samples[k].sampletype.tag = unwrap(query.sample_type).tag
    /\ \A p \in Scanned :
         (/\ SampleAt(p).sampletype.tag = unwrap(query.sample_type).tag
          /\ ~tempo_gate(query)
          /\ TextPasses(SampleAt(p)))
           => InSortingVec(SampleAt(p))

C3_Witness ==
  /\ Returned
  /\ query.sample_type = Some(Loop(0))
  /\ \E k \in 1..Len(samples) : samples[k].sampletype = Loop(120)
  /\ \E p \in Scanned : SampleAt(p).sampletype = OneShot

\* C4: with pack_id set every returned sample is a sample of a pack named
\* exactly pack_id, and nothing is returned when no pack has the name.
C4_PackFilter ==
  (Returned /\ is_some(query.pack_id)) =>
    \A k \in 1..Len(samples) :
      \E i \in 1..Len(lib.packs) :
        /\ lib.packs[i].meta.name = unwrap(query.pack_id)
        /\ \E j \in 1..Len(lib.packs[i].samples) : lib.packs[i].samples[j] = samples[k]

C4_Witness ==
  /\ Returned
  /\ query.pack_id = Some("Drums")
  /\ Len(lib.packs) = 2
  /\ lib.packs[1].meta.name = "drums"
  /\ lib.packs[1].samples = <<Sample("xa", OneShot)>>
  /\ lib.packs[2].meta.name = "Drums"
  /\ samples = <<Sample("a", OneShot)>>

\* the matching positions with their scores, <<position, score>>
ScoredMatches == { x \in { <<p, ScoreAt(p)>> : p \in Scanned } : x[2] > 0 }

\* x is ranked before y: higher score, or equal score and scanned earlier
RankedBefore(x, y) ==
  x[2] > y[2] \/ (x[2] = y[2] /\ ScannedBefore(x[1], y[1]))

\* C5: the result is the prefix of the matching samples in the order of
\* non-increasing score, equal scores in scan order.
C5_RankedStablePrefix ==
  Returned =>
    \A scored \in { ScoredMatches } :
      \A k \in 1..Len(samples) :
        \E x \in scored :
          /\ Cardinality({ y \in scored : RankedBefore(y, x) }) = k - 1
          /\ samples[k] = SampleAt(x[1])

C5_Witness ==
  /\ Returned
  /\ Len(samples) = 3
  /\ Cardinality(Matching) = 4
  /\ \E p, q, r \in Matching :
       /\ ScannedBefore(p, q) /\ ScannedBefore(q, r)
       /\ ScoreAt(p) = ScoreAt(q) /\ ScoreAt(r) > ScoreAt(q)
       /\ SampleAt(p) # SampleAt(q)
       /\ samples[1] = SampleAt(r)
       /\ samples[2] = SampleAt(p)
       /\ samples[3] = SampleAt(q)

\* C8: a zero or negative max_results gives an empty result.
C8_NonPositiveLimitEmpty ==
  (Returned /\ is_some(query.max_results) /\ unwrap(query.max_results) <= 0)
    => samples = <<>>

\* the integer t is above (below) the u32 m
IntAbove(t, m) == m[1] < 2 ^ 15 /\ t > m[1] * Limb + m[2]

IntBelow(t, m) == m[1] >= 2 ^ 15 \/ t < m[1] * Limb + m[2]

\* C9: under a Loop(t) filter a sample that passes the type gate is stopped
\* by the tempo gate exactly when t > min_tempo or t < max_tempo, t compared
\* as the integer it is; no other filter makes the bounds stop anything.
C9_TempoGateInteger ==
  Returned =>
    \A p \in Scanned :
      (~type_gate(query, SampleAt(p)) /\ TextPasses(SampleAt(p))) =>
        (~InSortingVec(SampleAt(p)) <=>
           /\ is_some(query.sample_type)
           /\ unwrap(query.sample_type).tag = "Loop"
           /\ LET t == unwrap(query.sample_type).tempo
              IN  \/ is_some(query.min_tempo) /\ IntAbove(t, unwrap(query.min_tempo))
                  \/ is_some(query.max_tempo) /\ IntBelow(t, unwrap(query.max_tempo)))

\* 1-based positions at which a piece of the text starts: the start of the
\* text and the position behind every space
PieceStarts(text) ==
  {1} \cup { i + 1 : i \in { j \in 1..Len(text) : Chr(text, j) = " " } }

\* the piece of the text that starts at position a, up to the next space
PieceAt(text, a) ==
  LET ends == { e \in a..Len(text) : Chr(text, e) = " " }
      stop == IF ends = {} THEN Len(text) + 1 ELSE CHOOSE e \in ends : \A f \in ends : e <= f
  IN  SubSeq(text, a, stop - 1)

\* t without the whitespace at its two ends
Trimmed(t) ==
  LET inked == { k \in 1..Len(t) : ~is_whitespace(Chr(t, k)) }
  IN  IF inked = {} THEN ""
      ELSE SubSeq(t, CHOOSE k \in inked : \A m \in inked : k <= m,
                     CHOOSE k \in inked : \A m \in inked : k >= m)

\* the number of non-empty pieces of the lowercased text found in the
\* lowercased path of s; Trimming says whether the pieces are trimmed first
TokenCount(s, text, Trimming) ==
  LET lower == to_lowercase(text)
      token(a) == IF Trimming THEN Trimmed(PieceAt(lower, a)) ELSE PieceAt(lower, a)
  IN  Cardinality({ a \in PieceStarts(lower) :
                      token(a) # "" /\ contains(to_lowercase(s.path), token(a)) })

\* a negation token of the query sets the exclusion flag for s
Excluded(s) == score_tokens(s, tokenize(query.query), 0, FALSE)[2]

ScoreIsTokenCount(Trimming) ==
  /\ \A p \in Scanned :
       LET s == SampleAt(p)
           n == TokenCount(s, query.query, Trimming)
       IN  (~type_gate(query, s) /\ ~tempo_gate(query) /\ ~Excluded(s)) =>
             IF n > 0 THEN \E k \in 1..Len(sorting_vec) : sorting_vec[k] = <<s, n>>
             ELSE ~InSortingVec(s)
  /\ \A k \in 1..Len(samples) : InSortingVec(samples[k])
  /\ \A k \in 1..Len(sorting_vec) : sorting_vec[k][2] > 0

====
